---------------------------- MODULE Spec2Model ----------------------------
(***************************************************************************)
(* SpaceX Launch Records Dashboard (spacex-dash-app.py).                   *)
(*                                                                         *)
(* The module-level code reads a CSV file into the global table spacex_df, *)
(* derives the slider defaults and the dropdown options from it and builds *)
(* the layout.  Two callbacks, get_pie_chart and update_scatter, are       *)
(* registered with the reactive dispatcher: a change of a control runs     *)
(* every callback that lists the control among its Inputs and stores the   *)
(* returned figure in the callback's Output slot.                          *)
(***************************************************************************)
EXTENDS Integers, Sequences, FiniteSets, TLC

VARIABLES
    source,          \* the file "spacex_launch_dash.csv" as it is on disk
    phase,           \* "start" | "failed" | "serving"
    spacex_df,       \* the global table
    min_payload,     \* module globals derived from the table
    max_payload,
    site_options,    \* the values of the dropdown's options, in order
    site_dropdown,   \* property value of the dropdown
    payload_slider,  \* property value of the range slider, <<low, high>>
    pie_figure,      \* property figure of graph success-pie-chart
    scatter_figure,  \* property figure of graph success-payload-scatter-chart
    invoked,         \* callbacks run by the last step, each with how it ended
    first_load       \* history: what the callbacks returned at the first page
                     \* load, and whether the last step called one of them
                     \* again with the arguments of that load

vars == <<source, phase, spacex_df, min_payload, max_payload, site_options,
          site_dropdown, payload_slider, pie_figure, scatter_figure, invoked,
          first_load>>

---------------------------------------------------------------------------
(* Column names *)

COL_LAUNCH_SITE == "Launch Site"
COL_CLASS == "class"
COL_PAYLOAD == "Payload Mass (kg)"
COL_BOOSTER == "Booster Version Category"
COL_FLIGHT == "Flight Number"

RequiredColumns == {COL_LAUNCH_SITE, COL_CLASS, COL_PAYLOAD, COL_BOOSTER}

---------------------------------------------------------------------------
(* Bounds of the model: the files the process may be started on *)

\* the most launches a file holds
MaxRows == 2
\* the user puts the slider's handles on the first MaxStop + 1 stops or on the
\* last one
MaxStop == 2

\* Launch site names, in Python's string order.  One site is named like the
\* dropdown's "All Sites" value.
SiteOrder == <<"ALL", "KSC">>
SiteNamesUniverse == {SiteOrder[i] : i \in DOMAIN SiteOrder}
\* one payload on a slider stop, one above the slider's maximum
PayloadValues == {2000, 12000}
BoosterValues == {"FT"}

FullRows == [site : SiteNamesUniverse, payload : PayloadValues,
             class : {0, 1}, booster : BoosterValues]

\* a file holds at least one launch, so that the smallest and the largest
\* payload are numbers
RowSeqs == UNION {[1..n -> FullRows] : n \in 1..MaxRows}

ColumnChoices == SUBSET (RequiredColumns \cup {COL_FLIGHT})

\* the CSV row i of a file with the columns cols
CsvRow(r, i, cols) ==
    [c \in cols |->
        CASE c = COL_LAUNCH_SITE -> r.site
          [] c = COL_CLASS -> r.class
          [] c = COL_PAYLOAD -> r.payload
          [] c = COL_BOOSTER -> r.booster
          [] OTHER -> i]

CsvFile(cols, rs) ==
    [readable |-> TRUE, columns |-> cols,
     rows |-> [i \in DOMAIN rs |-> CsvRow(rs[i], i, cols)]]

Unreadable == [readable |-> FALSE, columns |-> {}, rows |-> <<>>]

---------------------------------------------------------------------------
(* Values *)

\* Python's None: the dropdown's value once it is cleared.  It equals no
\* value of a column.
None == "<None>"

\* a raised exception
Raise(e) == [error |-> e]
IsError(x) == "error" \in DOMAIN x

NoTable == [columns |-> {}, rows |-> <<>>]
NoFigure == [kind |-> "none"]

---------------------------------------------------------------------------
(* pandas *)

read_csv(file) ==
    IF file.readable THEN [columns |-> file.columns, rows |-> file.rows]
    ELSE Raise("FileNotFoundError")

\* df[col]: the column as a sequence; callers test the column's presence
Column(df, col) == [i \in DOMAIN df.rows |-> df.rows[i][col]]

SetMax(S) == CHOOSE m \in S : \A x \in S : x <= m
SetMin(S) == CHOOSE m \in S : \A x \in S : m <= x
Values(s) == {s[i] : i \in DOMAIN s}

\* Series.max() and Series.min() of a column that is not empty
SeriesMax(s) == SetMax(Values(s))
SeriesMin(s) == SetMin(Values(s))

\* sorted(S) for a set of site names
SortedSites(S) ==
    SelectSeq(SiteOrder, LAMBDA s : s \in S)

\* df[df[col] == val]
FilterEq(df, col, val) ==
    [columns |-> df.columns,
     rows |-> SelectSeq(df.rows, LAMBDA r : r[col] = val)]

\* (mutant) the lower bound is exclusive
FilterBetween_ExclusiveLow(df, col, low, high) ==
    [columns |-> df.columns,
     rows |-> SelectSeq(df.rows,
                 LAMBDA r : r[col] > low /\ r[col] <= high)]

\* df[(df[col] >= low) & (df[col] <= high)]
FilterBetween(df, col, low, high) ==
    [columns |-> df.columns,
     rows |-> SelectSeq(df.rows,
                 LAMBDA r : r[col] >= low /\ r[col] <= high)]

\* Series.value_counts(): the values present, each with its count
value_counts(s) ==
    [x \in Values(s) |-> Cardinality({i \in DOMAIN s : s[i] = x})]

\* Series.reindex(index, fill_value=fill)
reindex(s, index, fill) ==
    [k \in index |-> IF k \in DOMAIN s THEN s[k] ELSE fill]

\* df.groupby(key)[col].count().reset_index(): one row per key present,
\* sorted by key, with the number of rows of the group
GroupByCount(df, key) ==
    LET keys == SortedSites(Values(Column(df, key)))
    IN [i \in DOMAIN keys |->
          [key |-> keys[i],
           count |-> Cardinality({j \in DOMAIN df.rows :
                                     df.rows[j][key] = keys[i]})]]

---------------------------------------------------------------------------
(* The callbacks *)

PIE == "success-pie-chart"
SCATTER == "success-payload-scatter-chart"

\* px.pie(names=..., values=..., title=...)
Pie(names, values, title) ==
    [kind |-> "pie", names |-> names, values |-> values, title |-> title]

\* (mutant) the sites are counted over every launch, not over the successes
PieAllSites_NoFilter(df) ==
    LET by_site == GroupByCount(df, COL_LAUNCH_SITE)
    IN Pie([i \in DOMAIN by_site |-> by_site[i].key],
           [i \in DOMAIN by_site |-> by_site[i].count],
           <<"Total Successful Launches by Site">>)

\* get_pie_chart, selected_site == 'ALL'
PieAllSites(df) ==
    IF COL_CLASS \notin df.columns THEN Raise("KeyError")
    ELSE IF COL_LAUNCH_SITE \notin df.columns THEN Raise("KeyError")
    ELSE LET df_success == FilterEq(df, COL_CLASS, 1)
             success_by_site == GroupByCount(df_success, COL_LAUNCH_SITE)
         IN Pie([i \in DOMAIN success_by_site |-> success_by_site[i].key],
                [i \in DOMAIN success_by_site |-> success_by_site[i].count],
                <<"Total Successful Launches by Site">>)

\* (mutant) the counts are not reindexed: an outcome without a launch is no
\* key of counts
ClassCounts_NoReindex(site_df) ==
    value_counts(Column(site_df, COL_CLASS))

\* counts = site_df[COL_CLASS].value_counts().reindex([1, 0], fill_value=0)
ClassCounts(site_df) ==
    reindex(value_counts(Column(site_df, COL_CLASS)), {1, 0}, 0)

\* get_pie_chart, any other selected_site
PieOneSite(df, selected_site) ==
    IF COL_LAUNCH_SITE \notin df.columns THEN Raise("KeyError")
    ELSE IF COL_CLASS \notin df.columns THEN Raise("KeyError")
    ELSE LET site_df == FilterEq(df, COL_LAUNCH_SITE, selected_site)
             counts == ClassCounts(site_df)
         IN IF ~({1, 0} \subseteq DOMAIN counts) THEN Raise("KeyError")
            ELSE Pie(<<"Success", "Failure">>, <<counts[1], counts[0]>>,
                     <<"Success vs Failure for ", selected_site>>)

get_pie_chart(df, selected_site) ==
    IF selected_site = "ALL" THEN PieAllSites(df)
    ELSE PieOneSite(df, selected_site)

\* (mutant) no copy is taken and the rows are dropped in place
GlobalAfterPie_InPlace(df, selected_site) ==
    IF selected_site = "ALL" THEN FilterEq(df, COL_CLASS, 1)
    ELSE FilterEq(df, COL_LAUNCH_SITE, selected_site)

\* the global table once get_pie_chart has returned: the callback works on
\* a copy and every filter builds a new table
GlobalAfterPie(df, selected_site) == df

\* the rows update_scatter plots
ScatterRows(df, selected_site, low, high) ==
    LET by_payload == FilterBetween(df, COL_PAYLOAD, low, high)
    IN IF selected_site # "ALL"
       THEN FilterEq(by_payload, COL_LAUNCH_SITE, selected_site)
       ELSE by_payload

ScatterTitle(selected_site) ==
    IF selected_site # "ALL"
    THEN <<"Payload vs. Outcome for ", selected_site>>
    ELSE <<"Payload vs. Outcome for All Sites">>

\* px.scatter(df, x=, y=, color=, hover_data=, title=, labels=) and
\* update_yaxes; the y range [-0.2, 1.2] is kept in tenths
Scatter(df, title) ==
    LET hover_data == IF COL_FLIGHT \in df.columns
                      THEN <<COL_LAUNCH_SITE, COL_FLIGHT>>
                      ELSE <<COL_LAUNCH_SITE>>
    IN [kind |-> "scatter",
        points |-> [i \in DOMAIN df.rows |->
                      [x |-> df.rows[i][COL_PAYLOAD],
                       y |-> df.rows[i][COL_CLASS],
                       color |-> df.rows[i][COL_BOOSTER],
                       hover |-> [k \in DOMAIN hover_data |->
                                     df.rows[i][hover_data[k]]]]],
        title |-> title,
        ylabel |-> "Outcome (1=Success, 0=Failure)",
        tickvals |-> <<0, 1>>,
        yrange10 |-> <<-2, 12>>]

update_scatter(df, selected_site, payload_range) ==
    LET low == payload_range[1]
        high == payload_range[2]
    IN IF COL_PAYLOAD \notin df.columns THEN Raise("KeyError")
       ELSE IF selected_site # "ALL" /\ COL_LAUNCH_SITE \notin df.columns
            THEN Raise("KeyError")
       ELSE IF ~({COL_PAYLOAD, COL_CLASS, COL_BOOSTER, COL_LAUNCH_SITE}
                    \subseteq df.columns)
            THEN Raise("ValueError")
       ELSE Scatter(ScatterRows(df, selected_site, low, high),
                    ScatterTitle(selected_site))

\* (mutant) the filtered table is assigned to the global
GlobalAfterScatter_InPlace(df, selected_site, payload_range) ==
    ScatterRows(df, selected_site, payload_range[1], payload_range[2])

\* the global table once update_scatter has returned
GlobalAfterScatter(df, selected_site, payload_range) == df

---------------------------------------------------------------------------
(* The layout and the dispatcher *)

SliderMin == 0
SliderMax == 10000
SliderStep == 1000

\* the positions a handle of the range slider can be put on
SliderStops ==
    {SliderMin + k * SliderStep : k \in 0..((SliderMax - SliderMin) \div SliderStep)}

\* the stops the user puts a handle on: the first MaxStop + 1 and the last
UsedStops ==
    {s \in SliderStops : s <= SliderMin + MaxStop * SliderStep \/ s = SliderMax}

\* the values the range slider reports after the user moved a handle
SliderValues ==
    {q \in UsedStops \X UsedStops : q[1] <= q[2]}

\* the values the dropdown reports: one of its options, or None when cleared
DropdownValues == {site_options[i] : i \in DOMAIN site_options} \cup {None}

\* (mutants) a callback registered with the wrong Input
PieInputs_SliderOnly == {"payload-slider"}
ScatterInputs_SiteOnly == {"site-dropdown"}

\* Input(...) of each callback
PieInputs == {"site-dropdown"}
ScatterInputs == {"site-dropdown", "payload-slider"}

\* the callbacks run when the properties in changed change
Triggered(changed) ==
    {cb \in {PIE} : PieInputs \cap changed # {}}
    \cup {cb \in {SCATTER} : ScatterInputs \cap changed # {}}

Outcome(result) == IF IsError(result) THEN result.error ELSE "ok"

\* Run the callbacks trig with the dropdown at site and the slider at range.
\* A figure that is returned is stored in the callback's output; a callback
\* that raises leaves its output as it is.  The callbacks run one after the
\* other, in the order of their registration.
Dispatch(trig, site, range) ==
    LET df1 == IF PIE \in trig THEN GlobalAfterPie(spacex_df, site)
               ELSE spacex_df
        df2 == IF SCATTER \in trig THEN GlobalAfterScatter(df1, site, range)
               ELSE df1
        pie == get_pie_chart(spacex_df, site)
        sc == update_scatter(df1, site, range)
    IN /\ pie_figure' = IF PIE \in trig /\ ~IsError(pie) THEN pie
                        ELSE pie_figure
       /\ scatter_figure' = IF SCATTER \in trig /\ ~IsError(sc) THEN sc
                            ELSE scatter_figure
       /\ invoked' = [cb \in trig |->
                        IF cb = PIE THEN Outcome(pie) ELSE Outcome(sc)]
       /\ spacex_df' = df2
       /\ first_load' =
            IF first_load = NoFigure
            THEN [kind |-> "first", pie |-> pie, scatter |-> sc,
                  again |-> FALSE]
            ELSE [first_load EXCEPT
                    !.again = \/ PIE \in trig /\ site = "ALL"
                              \/ /\ SCATTER \in trig /\ site = "ALL"
                                 /\ range = <<min_payload, max_payload>>]

---------------------------------------------------------------------------
(* Actions *)

\* Import of the module: read the file, derive the globals, build the layout
Load ==
    /\ phase = "start"
    /\ LET df == read_csv(source)
       IN IF IsError(df) \/ COL_PAYLOAD \notin df.columns
                         \/ COL_LAUNCH_SITE \notin df.columns
          THEN /\ phase' = "failed"
               /\ UNCHANGED <<spacex_df, min_payload, max_payload,
                              site_options, site_dropdown, payload_slider>>
          ELSE /\ phase' = "serving"
               /\ spacex_df' = df
               /\ max_payload' = SeriesMax(Column(df, COL_PAYLOAD))
               /\ min_payload' = SeriesMin(Column(df, COL_PAYLOAD))
               /\ site_options' =
                    <<"ALL">> \o SortedSites(Values(Column(df, COL_LAUNCH_SITE)))
               /\ site_dropdown' = "ALL"
               /\ payload_slider' = <<min_payload', max_payload'>>
    /\ UNCHANGED <<source, pie_figure, scatter_figure, invoked, first_load>>

\* A browser loads the page: the controls hold the layout's values and every
\* callback runs once
PageLoad ==
    /\ phase = "serving"
    /\ site_dropdown' = "ALL"
    /\ payload_slider' = <<min_payload, max_payload>>
    /\ Dispatch({PIE, SCATTER}, site_dropdown', payload_slider')
    /\ UNCHANGED <<source, phase, min_payload, max_payload, site_options>>

\* The user picks another option of the dropdown, or clears it
ChangeSite ==
    /\ phase = "serving"
    /\ first_load # NoFigure
    /\ \E s \in DropdownValues \ {site_dropdown} :
          /\ site_dropdown' = s
          /\ Dispatch(Triggered({"site-dropdown"}), s, payload_slider)
    /\ UNCHANGED <<source, phase, min_payload, max_payload, site_options,
                   payload_slider>>

\* The user moves a handle of the range slider
ChangeRange ==
    /\ phase = "serving"
    /\ first_load # NoFigure
    /\ \E r \in SliderValues \ {payload_slider} :
          /\ payload_slider' = r
          /\ Dispatch(Triggered({"payload-slider"}), site_dropdown, r)
    /\ UNCHANGED <<source, phase, min_payload, max_payload, site_options,
                   site_dropdown>>

Next == Load \/ PageLoad \/ ChangeSite \/ ChangeRange

InitGlobals ==
    /\ phase = "start"
    /\ spacex_df = NoTable
    /\ min_payload = 0
    /\ max_payload = 0
    /\ site_options = <<>>
    /\ site_dropdown = None
    /\ payload_slider = <<0, 0>>
    /\ pie_figure = NoFigure
    /\ scatter_figure = NoFigure
    /\ invoked = <<>>
    /\ first_load = NoFigure

\* the process is started on a file that holds a Dataset: every row has the
\* four fields of a launch record
Init ==
    /\ source \in {CsvFile(RequiredColumns, rs) : rs \in RowSeqs}
    /\ InitGlobals

\* the process is started on any file: unreadable, or with any of the columns
InitAnyFile ==
    /\ source \in {Unreadable}
                  \cup {CsvFile(cols, rs) : cols \in ColumnChoices, rs \in RowSeqs}
    /\ InitGlobals

Spec == Init /\ [][Next]_vars
SpecLoad == InitAnyFile /\ [][Next]_vars

---------------------------------------------------------------------------
(* The vocabulary of the claims *)

\* the dataset D: the launch records of the file the process was started on
Dataset == source.rows

\* siteNames(D)
siteNames == {Dataset[i][COL_LAUNCH_SITE] : i \in DOMAIN Dataset}

\* count(D, site=S, outcome=o) and count(D, outcome=o)
CountSiteOutcome(S, o) ==
    Cardinality({i \in DOMAIN Dataset :
                    Dataset[i][COL_LAUNCH_SITE] = S /\ Dataset[i][COL_CLASS] = o})
CountOutcome(o) ==
    Cardinality({i \in DOMAIN Dataset : Dataset[i][COL_CLASS] = o})

RECURSIVE SumSeq(_)
SumSeq(q) == IF DOMAIN q = {} THEN 0 ELSE q[1] + SumSeq(Tail(q))

Ran(cb) == cb \in DOMAIN invoked
PageLoaded == first_load # NoFigure

\* low <= p <= high for the numbers of the range
WithinRange(p, range) == range[1] <= p /\ p <= range[2]

\* the records of D the scatter query is to plot
Selected(S, range) ==
    {i \in DOMAIN Dataset :
        /\ WithinRange(Dataset[i][COL_PAYLOAD], range)
        /\ (S = "ALL" \/ Dataset[i][COL_LAUNCH_SITE] = S)}

\* the point of record r
PointOf(r) ==
    [x |-> r[COL_PAYLOAD], y |-> r[COL_CLASS], color |-> r[COL_BOOSTER],
     hover |-> <<r[COL_LAUNCH_SITE]>>]

---------------------------------------------------------------------------
(* C1..C4: the two queries *)

\* C1: for every site S of the dataset the pie query emits ("Success",
\* count(D, S, 1)) and ("Failure", count(D, S, 0)), in that order, so the two
\* counts sum to the number of records of S.
C1_SitePieIsSuccessFailure ==
    (Ran(PIE) /\ site_dropdown \in siteNames) =>
        /\ pie_figure.kind = "pie"
        /\ pie_figure.names = <<"Success", "Failure">>
        /\ pie_figure.values = <<CountSiteOutcome(site_dropdown, 1),
                                 CountSiteOutcome(site_dropdown, 0)>>
        /\ SumSeq(pie_figure.values) =
              CountSiteOutcome(site_dropdown, 1) + CountSiteOutcome(site_dropdown, 0)

\* C2: with "ALL" selected the pie query emits one entry per site that has a
\* successful launch, with the number of successful launches of that site,
\* and the counts add up to count(D, outcome=1).
C2_AllSitesPieCountsSuccesses ==
    (Ran(PIE) /\ site_dropdown = "ALL") =>
        /\ pie_figure.kind = "pie"
        /\ DOMAIN pie_figure.names = DOMAIN pie_figure.values
        /\ Values(pie_figure.names) = {S \in siteNames : CountSiteOutcome(S, 1) > 0}
        /\ Cardinality(Values(pie_figure.names)) = Cardinality(DOMAIN pie_figure.names)
        /\ \A i \in DOMAIN pie_figure.names :
              pie_figure.values[i] = CountSiteOutcome(pie_figure.names[i], 1)
        /\ SumSeq(pie_figure.values) = CountOutcome(1)

\* two sites have a successful launch each
C2_Witness ==
    /\ Ran(PIE) /\ site_dropdown = "ALL"
    /\ Cardinality(DOMAIN pie_figure.names) = 2
    /\ SumSeq(pie_figure.values) = 2

\* C3: the scatter query emits one point per record with
\* low <= payload <= high (both inclusive) and, unless "ALL" is selected, the
\* selected site, and no other point.
C3_ScatterPlotsExactlyTheSelected ==
    Ran(SCATTER) =>
        /\ scatter_figure.kind = "scatter"
        /\ Cardinality(DOMAIN scatter_figure.points) =
              Cardinality(Selected(site_dropdown, payload_slider))
        /\ \A pt \in {PointOf(Dataset[i]) : i \in DOMAIN Dataset} :
              Cardinality({k \in DOMAIN scatter_figure.points :
                              scatter_figure.points[k] = pt})
              = Cardinality({i \in Selected(site_dropdown, payload_slider) :
                              PointOf(Dataset[i]) = pt})

\* a record on the bound of the range (low, low) is plotted, another is not
C3_Witness ==
    /\ Ran(SCATTER)
    /\ site_dropdown \notin {"ALL", None}
    /\ payload_slider[1] = payload_slider[2]
    /\ Cardinality(DOMAIN scatter_figure.points) = 1
    /\ scatter_figure.points[1].x = payload_slider[1]
    /\ Cardinality(DOMAIN Dataset) = 2

\* C4: a query whose filtered set is empty does not raise: the pie of a site
\* without records is (0, 0), the pie of "ALL" without a success is the empty
\* series, and the scatter plot without a matching record has no points.
C4_EmptySelectionIsNoError ==
    /\ (Ran(PIE) /\ site_dropdown # "ALL"
          /\ CountSiteOutcome(site_dropdown, 1) + CountSiteOutcome(site_dropdown, 0) = 0)
        => /\ invoked[PIE] = "ok"
           /\ pie_figure.kind = "pie"
           /\ pie_figure.names = <<"Success", "Failure">>
           /\ pie_figure.values = <<0, 0>>
    /\ (Ran(PIE) /\ site_dropdown = "ALL" /\ CountOutcome(1) = 0)
        => /\ invoked[PIE] = "ok"
           /\ pie_figure.kind = "pie"
           /\ DOMAIN pie_figure.names = {}
           /\ DOMAIN pie_figure.values = {}
    /\ (Ran(SCATTER) /\ Selected(site_dropdown, payload_slider) = {})
        => /\ invoked[SCATTER] = "ok"
           /\ scatter_figure.kind = "scatter"
           /\ DOMAIN scatter_figure.points = {}

\* the dropdown is cleared over a dataset that has records
C4_Witness ==
    /\ Ran(PIE) /\ Ran(SCATTER)
    /\ site_dropdown = None
    /\ DOMAIN Dataset # {}
    /\ pie_figure.values = <<0, 0>>
    /\ DOMAIN scatter_figure.points = {}

---------------------------------------------------------------------------
(* C5, C6: loading and the range *)

\* C5: the process serves only if the file was readable and has the four
\* required columns; no callback runs on a table that lacks one of them.
C5_ServesOnlyCompleteTables ==
    /\ phase = "serving" =>
          source.readable /\ RequiredColumns \subseteq source.columns
    /\ DOMAIN invoked # {} => RequiredColumns \subseteq spacex_df.columns

\* C6: the range handed to the scatter query satisfies
\* 0 <= low <= high <= 10000.
C6_RangeWithinSlider ==
    Ran(SCATTER) =>
        /\ SliderMin <= payload_slider[1]
        /\ payload_slider[1] <= payload_slider[2]
        /\ payload_slider[2] <= SliderMax

---------------------------------------------------------------------------
(* C7, C10: the dispatcher *)

\* C7 as claimed: every change of the dropdown and every change of the range
\* slider invokes both queries.
C7_BothChartsOnEveryChange ==
    [][(phase = "serving" /\ (site_dropdown' # site_dropdown
                              \/ payload_slider' # payload_slider))
          => (PIE \in DOMAIN invoked' /\ SCATTER \in DOMAIN invoked')]_vars

\* C7 amended: every change of the dropdown invokes both queries, and every
\* change of the range slider invokes the scatter query.
C7_ChartsOnChangeOfTheirInputs ==
    [][phase = "serving" =>
          /\ site_dropdown' # site_dropdown
                => (PIE \in DOMAIN invoked' /\ SCATTER \in DOMAIN invoked')
          /\ payload_slider' # payload_slider
                => SCATTER \in DOMAIN invoked']_vars

\* the range slider was moved and the pie query was not invoked
C7_Witness ==
    /\ PageLoaded
    /\ DOMAIN invoked = {SCATTER}
    /\ payload_slider # <<min_payload, max_payload>>

\* C10: once the page is loaded, the displayed pie is the pie query of the
\* selected site and the displayed scatter plot is the scatter query of the
\* selected site and the selected range.
C10_NoStaleChart ==
    PageLoaded =>
        /\ pie_figure = get_pie_chart(spacex_df, site_dropdown)
        /\ scatter_figure = update_scatter(spacex_df, site_dropdown, payload_slider)

\* a site was selected, then the range was moved
C10_Witness ==
    /\ PageLoaded
    /\ DOMAIN invoked = {SCATTER}
    /\ site_dropdown \notin {"ALL", None}
    /\ payload_slider # <<min_payload, max_payload>>
    /\ pie_figure.values[1] > 0
    /\ DOMAIN scatter_figure.points # {}
    /\ Cardinality(DOMAIN scatter_figure.points) < Cardinality(DOMAIN Dataset)

---------------------------------------------------------------------------
(* C8, C9: purity *)

C9_TableIsNeverChanged ==
    phase = "serving" =>
        /\ spacex_df = read_csv(source)
        /\ min_payload = SeriesMin(Column(read_csv(source), COL_PAYLOAD))
        /\ max_payload = SeriesMax(Column(read_csv(source), COL_PAYLOAD))
        /\ site_options = <<"ALL">> \o SortedSites(siteNames)

\* queries that filter the table were called on a table of two records
C9_Witness ==
    /\ phase = "serving"
    /\ DOMAIN invoked = {SCATTER}
    /\ site_dropdown \notin {"ALL", None}
    /\ Cardinality(DOMAIN spacex_df.rows) = 2
    /\ DOMAIN scatter_figure.points = {}
    /\ pie_figure.values = <<1, 0>>

====
